---------------------------- MODULE Spec2Model ----------------------------
(***************************************************************************)
(* The engine-process supervisor (ServerUtils) and the RPC client (API)   *)
(* of dendron, as state machines.                                          *)
(*                                                                         *)
(* Spec     : one call of ServerUtils.execServerNode, the events the       *)
(*            spawned process emits on its handle, their dispatch to the   *)
(*            registered listeners, and the launcher's own termination.    *)
(* FairSpec : Spec, with the event loop dispatching every queued event.    *)
(* RpcSpec  : one call of API._makeRequest.                                *)
(***************************************************************************)
EXTENDS Integers, Sequences, FiniteSets, TLC

VARIABLES
    launcher,     \* the current (parent) process: "idle", "running", "dead"
    logPathSet,   \* whether the logPath argument of execServerNode is defined
    child,        \* the spawned process: "none", "alive", "gone"
    childPid,     \* subprocess.pid (NoPid before the spawn)
    subListeners, \* listeners registered on the subprocess handle, per event
    procListeners,\* listeners registered on `process`, per event
    pending,      \* events emitted on the subprocess handle, not yet dispatched
    nEmitted,     \* how many events were emitted so far
    promise,      \* the promise execServerNode returns
    settleCalls,  \* how many times resolve or reject was called
    firstEvent,   \* the first dispatched event that has a launch listener
    killCalls,    \* how many times handleExit ran
    lastKillRes,  \* what the last process.kill did: "ok" or the error code
    lastRaised,   \* what the last handleExit threw ("none": it returned)
    killPid,      \* the pid the last process.kill was aimed at
    rpc,          \* the RPC call in progress
    store,        \* MemoryStore: the engine stored under each key
    puts,         \* the putWS calls so far, oldest first
    regLast,      \* the last putWS or getWS call and what it did
    cs            \* the run of startServerNode in the server process

launchVars == <<launcher, logPathSet, child, childPid, subListeners,
                procListeners, pending, nEmitted, promise, settleCalls,
                firstEvent, killCalls, lastKillRes, lastRaised, killPid>>
regVars == <<store, puts, regLast>>
vars == <<launchVars, rpc, regVars, cs>>

(***************************************************************************)
(* Bounds                                                                  *)
(***************************************************************************)
MaxEvents == 3
MaxPending == 1
MaxPuts == 2

(***************************************************************************)
(* Numbers and strings.  A string is a sequence of one-character strings;  *)
(* a JavaScript number is an integer or NaN.                               *)
(***************************************************************************)
NaN == [nan |-> TRUE, v |-> 0]
Num(n) == [nan |-> FALSE, v |-> n]

Digits == <<"0", "1", "2", "3", "4", "5", "6", "7", "8", "9">>
IsDigit(c) == \E i \in 1..10 : Digits[i] = c
DigitVal(c) == (CHOOSE i \in 1..10 : Digits[i] = c) - 1
IsSpace(c) == c = " "

RECURSIVE TrimStart(_)
TrimStart(s) ==
    IF s # <<>> /\ IsSpace(Head(s)) THEN TrimStart(Tail(s)) ELSE s

\* The value of the longest prefix of digits of s, continuing from acc.
RECURSIVE DigitPrefix(_, _)
DigitPrefix(s, acc) ==
    IF s # <<>> /\ IsDigit(Head(s))
    THEN DigitPrefix(Tail(s), acc * 10 + DigitVal(Head(s)))
    ELSE acc

\* A parse that stops after the first digit.
parseIntOneDigit(s) ==
    IF s = <<>> \/ ~IsDigit(Head(s)) THEN NaN ELSE Num(DigitVal(Head(s)))

\* parseInt(s, 10): leading white space skipped, an optional sign, then the
\* longest prefix of digits; NaN when there is no digit.
parseInt(s) ==
    LET t == TrimStart(s)
        neg == t # <<>> /\ Head(t) = "-"
        u == IF t # <<>> /\ Head(t) \in {"-", "+"} THEN Tail(t) ELSE t
    IN IF u = <<>> \/ ~IsDigit(Head(u))
       THEN NaN
       ELSE Num((IF neg THEN -1 ELSE 1) * DigitPrefix(u, 0))

\* a <= b on JavaScript numbers: false when either is NaN.
JsLeq(a, b) == ~a.nan /\ ~b.nan /\ a.v <= b.v

\* `${n}` for an integer n >= 0: its decimal string.
RECURSIVE ToDecimal(_)
ToDecimal(n) ==
    IF n < 10 THEN <<Digits[n + 1]>>
    ELSE Append(ToDecimal(n \div 10), Digits[(n % 10) + 1])

(***************************************************************************)
(* Events on the subprocess handle                                         *)
(***************************************************************************)
NoPid == 0
Pids == {4001, 4002}
NoCode == -1

Ports == {7, 41234}
Payloads == {ToDecimal(p) : p \in Ports} \cup
            {<<"0">>, <<"-", "1">>, <<"a", "b", "c">>, <<"8", "x">>}
ExitCodes == {0, 1}
\* The errors an "error" event carries, by their code.
ErrorDetails == {<<"EPIPE">>, <<"ENOENT">>}

LaunchEvents == {"close", "disconnect", "exit", "error", "message"}
CleanupEvents == {"exit", "SIGINT", "SIGUSR1", "SIGUSR2", "uncaughtException"}
EventNames == LaunchEvents \cup CleanupEvents

Ev(n, p, c) == [name |-> n, payload |-> p, code |-> c]
NoEvent == Ev("none", <<>>, NoCode)
Events ==
    {Ev("message", p, NoCode) : p \in Payloads} \cup
    {Ev(n, <<>>, c) : n \in {"close", "exit"}, c \in ExitCodes} \cup
    {Ev("error", d, NoCode) : d \in ErrorDetails} \cup
    {Ev(n, <<>>, NoCode) :
        n \in (EventNames \ {"message", "close", "exit", "error"})}

(***************************************************************************)
(* The promise of execServerNode                                           *)
(***************************************************************************)
Pending == [state |-> "pending", message |-> "", port |-> NaN,
            code |-> NoCode, detail |-> <<>>, pid |-> NoPid,
            wrapped |-> FALSE]
\* resolve({port, subprocess})
Resolved(port, pid) == [state |-> "resolved", message |-> "", port |-> port,
                        code |-> NoCode, detail |-> <<>>, pid |-> pid,
                        wrapped |-> FALSE]
\* A rejection with DendronError({message, payload}), the payload being
\* {code} or the error's text; wrapped: the rejection value is the object
\* {error: DendronError} instead.
Rejected(message, code, detail, wrapped) ==
    [state |-> "rejected", message |-> message, port |-> NaN,
     code |-> code, detail |-> detail, pid |-> NoPid, wrapped |-> wrapped]

\* stringifyError(err): the error serialised, its code kept.
stringifyError(err) == <<"{", "code", ":">> \o err \o <<"}">>

\* A settled promise keeps its first settlement.
SettleAlways(p, v) == v
Settle(p, v) == IF p.state = "pending" THEN v ELSE p

\* The part of the state the listeners of one event read and write.
resolve(st, v) ==
    [st EXCEPT !.promise = Settle(@, v), !.settleCalls = @ + 1]
reject(st, v) ==
    [st EXCEPT !.promise = Settle(@, v), !.settleCalls = @ + 1]

(***************************************************************************)
(* The listeners execServerNode registers                                  *)
(***************************************************************************)
\* subprocess.on("close", (code) => reject(DendronError "close", {code}))
onCloseNoCode(st, ev) == reject(st, Rejected("close", NoCode, <<>>, FALSE))
onClose(st, ev) == reject(st, Rejected("close", ev.code, <<>>, FALSE))

\* subprocess.on("disconnect", () => reject(DendronError "disconnect"))
onDisconnectIgnored(st, ev) == st
onDisconnect(st, ev) ==
    reject(st, Rejected("disconnect", NoCode, <<>>, FALSE))

\* subprocess.on("exit", (code) => reject(DendronError "exit", {code}))
onExit(st, ev) == reject(st, Rejected("exit", ev.code, <<>>, FALSE))

\* subprocess.on("error", (err) => reject(DendronError "error", err))
onError(st, ev) ==
    reject(st, Rejected("error", NoCode, stringifyError(ev.payload), FALSE))

\* The test of the message listener: port <= 0.
PortIsInvalid(port) == JsLeq(port, Num(0))

\* subprocess.on("message", ...): parseInt, reject when port <= 0, and then
\* (there is no return) resolve in every case.
onMessage(st, ev) ==
    LET port == parseInt(ev.payload)
        st1 == IF PortIsInvalid(port)
               THEN reject(st, Rejected("port is smaller than 0", NoCode,
                                        <<>>, TRUE))
               ELSE st
    IN resolve(st1, Resolved(port, st.pid))

\* What process.kill(pid) can do: signal a live process, or fail.
KillResults(c) == IF c = "alive" THEN {"ok", "EPERM"} ELSE {"ESRCH", "EPERM"}

\* The catch block of handleExit: every error but ESRCH is thrown again.
RethrowsAll(err) == TRUE
Rethrows(err) == err # "ESRCH"

\* handleExit: process.kill(subprocess.pid), whose outcome is r.
handleExit(st, r) ==
    [st EXCEPT !.killCalls = @ + 1,
               !.killPid = st.pid,
               !.lastKillRes = r,
               !.child = IF r = "ok" THEN "gone" ELSE @,
               !.lastRaised = IF r # "ok" /\ Rethrows(r) THEN r ELSE "none",
               !.thrown = r # "ok" /\ Rethrows(r)]

RunListener(h, st, ev, r) ==
    CASE h = "onClose" -> onClose(st, ev)
      [] h = "onDisconnect" -> onDisconnect(st, ev)
      [] h = "onExit" -> onExit(st, ev)
      [] h = "onError" -> onError(st, ev)
      [] h = "onMessage" -> onMessage(st, ev)
      [] h = "handleExit" -> handleExit(st, r)

\* emit: the listeners of the event run in the order they were registered; a
\* listener that throws ends the emit.
RECURSIVE RunListeners(_, _, _, _)
RunListeners(hs, st, ev, r) ==
    IF hs = <<>> \/ st.thrown THEN st
    ELSE RunListeners(Tail(hs), RunListener(Head(hs), st, ev, r), ev, r)

NoListeners == [e \in EventNames |-> <<>>]
on(ls, e, h) == [ls EXCEPT ![e] = Append(@, h)]

\* The emitters a listener can be registered on.
Tables(sub, proc) == [sub |-> sub, proc |-> proc]

\* A registration that adds the disconnect event to the five.
onProcessExitAlsoDisconnect(t, cb) ==
    [t EXCEPT !.sub = on(on(on(on(on(on(@, "exit", cb), "SIGINT", cb),
                         "SIGUSR1", cb), "SIGUSR2", cb),
                         "uncaughtException", cb), "disconnect", cb)]

\* A registration that leaves SIGUSR2 out.
onProcessExitNoSigusr2(t, cb) ==
    [t EXCEPT !.sub = on(on(on(on(@, "exit", cb), "SIGINT", cb),
                         "SIGUSR1", cb), "uncaughtException", cb)]

\* onProcessExit({subprocess, cb}): cb on five events of the subprocess handle.
onProcessExit(t, cb) ==
    [t EXCEPT !.sub = on(on(on(on(on(@, "exit", cb), "SIGINT", cb),
                         "SIGUSR1", cb), "SIGUSR2", cb),
                         "uncaughtException", cb)]

\* cleanServerProcess(subprocess)
cleanServerProcess(t) == onProcessExit(t, "handleExit")

\* The registrations of execServerNode, in the order of the code.
execServerNodeListeners ==
    LET sub == on(on(on(on(on(NoListeners, "close", "onClose"),
                  "disconnect", "onDisconnect"), "exit", "onExit"),
                  "error", "onError"), "message", "onMessage")
    IN cleanServerProcess(Tables(sub, NoListeners))

(***************************************************************************)
(* Actions                                                                 *)
(***************************************************************************)
ListenerState ==
    [promise |-> promise, settleCalls |-> settleCalls, child |-> child,
     pid |-> childPid, killCalls |-> killCalls, killPid |-> killPid,
     lastKillRes |-> lastKillRes, lastRaised |-> lastRaised,
     thrown |-> FALSE]

Store(st) ==
    /\ promise' = st.promise
    /\ settleCalls' = st.settleCalls
    /\ killCalls' = st.killCalls
    /\ killPid' = st.killPid
    /\ lastKillRes' = st.lastKillRes
    /\ lastRaised' = st.lastRaised

\* execServerNode: execa.node spawns the child whatever the arguments are, the
\* listeners are registered, and the pending promise is returned.
Launch ==
    /\ launcher = "idle"
    /\ \E lp \in BOOLEAN, pid \in Pids :
          /\ logPathSet' = lp
          /\ childPid' = pid
    /\ child' = "alive"
    /\ subListeners' = execServerNodeListeners.sub
    /\ procListeners' = execServerNodeListeners.proc
    /\ promise' = Pending
    /\ launcher' = "running"
    /\ UNCHANGED <<pending, nEmitted, settleCalls, firstEvent, killCalls,
                   lastKillRes, lastRaised, killPid, rpc,
                   regVars, cs>>

\* The spawned process (or its channel) emits an event on the handle; an
\* exit or a close tells that the process has ended.
ChildEmit ==
    /\ launcher = "running"
    /\ child # "none"
    /\ nEmitted < MaxEvents
    /\ Len(pending) < MaxPending
    /\ \E ev \in Events :
          /\ pending' = Append(pending, ev)
          /\ child' = IF ev.name \in {"exit", "close"} THEN "gone" ELSE child
    /\ nEmitted' = nEmitted + 1
    /\ UNCHANGED <<launcher, logPathSet, childPid, subListeners,
                   procListeners, promise, settleCalls, firstEvent, killCalls,
                   lastKillRes, lastRaised, killPid, rpc,
                   regVars, cs>>

\* The event loop of the launcher dispatches the oldest queued event to the
\* listeners registered for it on the subprocess handle.
Dispatch ==
    /\ launcher = "running"
    /\ pending # <<>>
    /\ LET ev == Head(pending)
           hs == subListeners[ev.name]
       IN /\ \E r \in KillResults(child) :
                LET st == RunListeners(hs, ListenerState, ev, r)
                IN Store(st) /\ child' = st.child
          /\ firstEvent' = IF firstEvent = NoEvent /\ ev.name \in LaunchEvents
                           THEN ev ELSE firstEvent
    /\ pending' = Tail(pending)
    /\ UNCHANGED <<launcher, logPathSet, childPid, subListeners,
                   procListeners, nEmitted, rpc, regVars, cs>>

\* The launcher itself ends: the event is emitted on `process`, whose
\* listeners run, and the process is gone.  What becomes of a child these
\* listeners did not kill is left to execa and the operating system: it
\* lives on or it ends.
LauncherTerminate ==
    /\ launcher = "running"
    /\ \E cause \in CleanupEvents, r \in KillResults(child) :
          LET st == RunListeners(procListeners[cause], ListenerState,
                                 Ev(cause, <<>>, NoCode), r)
          IN Store(st) /\ child' \in {st.child, "gone"}
    /\ launcher' = "dead"
    /\ UNCHANGED <<logPathSet, childPid, subListeners, procListeners, pending,
                   nEmitted, firstEvent, rpc, regVars, cs>>

(***************************************************************************)
(* The server process: one run of startServerNode                          *)
(***************************************************************************)
\* port: undefined (no ENGINE_SERVER_PORT given)
NoPort == 0

\* A payload that wraps the port in an envelope.
HandshakePayloadEnvelope(finalPort) ==
    <<"p", "o", "r", "t", ":">> \o ToDecimal(finalPort)

\* `${finalPort}`, the argument of process.send
HandshakePayload(finalPort) == ToDecimal(finalPort)

\* The ports launchv2 can resolve with: the one asked for, or, when none
\* was asked for, one it chose.
launchv2Ports(port) == IF port = NoPort THEN Ports ELSE {port}

CsIdle == [pc |-> "idle", hasSend |-> FALSE, port |-> NoPort,
           finalPort |-> NoPort, listening |-> FALSE, sent |-> 0,
           payload |-> <<>>, error |-> ""]

\* startServerNode is called, in the child execServerNode spawned (which
\* has process.send) or in a process started without an IPC channel, and
\* calls launchv2.
StartServerNode ==
    /\ cs.pc = "idle"
    /\ launcher # "dead"
    /\ \E port \in Ports \cup {NoPort} :
          cs' = [cs EXCEPT !.pc = "launchv2",
                           !.hasSend = (child = "alive"),
                           !.port = port]
    /\ UNCHANGED <<launchVars, rpc, regVars>>

\* launchv2 rejects, and startServerNode with it; or it resolves with the
\* port the listener is bound to, and startServerNode goes on: it throws
\* when process.send is missing and sends the port otherwise.
Launchv2Settles ==
    /\ cs.pc = "launchv2"
    /\ \/ /\ cs' = [cs EXCEPT !.pc = "failed", !.error = "launchv2 failed"]
          /\ UNCHANGED launchVars
       \/ \E finalPort \in launchv2Ports(cs.port) :
             LET bound == [cs EXCEPT !.listening = TRUE,
                                     !.finalPort = finalPort]
             IN IF ~cs.hasSend
                THEN /\ cs' = [bound EXCEPT !.pc = "failed",
                                            !.error = "expect a child process"]
                     /\ UNCHANGED launchVars
                ELSE /\ cs' = [bound EXCEPT
                                  !.pc = "done",
                                  !.sent = cs.sent + 1,
                                  !.payload = HandshakePayload(finalPort)]
                     /\ pending' = Append(pending,
                            Ev("message", HandshakePayload(finalPort), NoCode))
                     /\ nEmitted' = nEmitted + 1
                     /\ UNCHANGED <<launcher, logPathSet, child, childPid,
                                    subListeners, procListeners, promise,
                                    settleCalls, firstEvent, killCalls,
                                    lastKillRes, lastRaised, killPid>>
    /\ UNCHANGED <<rpc, regVars>>

\* The child process ends: its handle emits exit and then close, and a run
\* of startServerNode in it ends with it.
ChildEnds ==
    /\ launcher = "running"
    /\ child = "alive"
    /\ \E c \in ExitCodes :
          pending' = pending \o <<Ev("exit", <<>>, c), Ev("close", <<>>, c)>>
    /\ child' = "gone"
    /\ nEmitted' = nEmitted + 2
    /\ cs' = IF cs.hasSend /\ cs.pc = "launchv2"
             THEN [cs EXCEPT !.pc = "gone"] ELSE cs
    /\ UNCHANGED <<launcher, logPathSet, childPid, subListeners,
                   procListeners, promise, settleCalls, firstEvent, killCalls,
                   lastKillRes, lastRaised, killPid, rpc, regVars>>

(***************************************************************************)
(* The RPC client: one call of API._makeRequest                            *)
(***************************************************************************)
\* An error value: its kind, the code a DendronError carries, and the status
\* of the response an axios error carries (NoStatus: none).
NoStatus == 0
Err(kind, code, status) == [kind |-> kind, code |-> code, status |-> status]
Null == Err("null", NoStatus, NoStatus)
Undefined == Err("undefined", NoStatus, NoStatus)
Truthy(e) == e.kind \notin {"null", "undefined"}

\* STATUS_HANDLERS: the typed error of each status code of the table.
STATUS_HANDLERS ==
    [c \in {401, 404, 502} |->
        CASE c = 401 -> Err("not_authorized_error", c, NoStatus)
          [] c = 404 -> Err("does_not_exist_error", c, NoStatus)
          [] c = 502 -> Err("unknown_error", c, NoStatus)]

Paths == {"note/getByPath", "config/write"}
Methods == {"get", "post"}
\* logger: the default no-op one, one whose error method fails, one whose
\* every method fails.
Loggers == {"noop", "failsOnError", "failsAlways"}
LogFails(logger, lvl) ==
    logger = "failsAlways" \/ (logger = "failsOnError" /\ lvl = "error")

\* What the transport (axios) does with the request: no response at all, or
\* a response with a status and a body.
StatusCodes == {200, 401, 404, 500, 502}
\* The body: absent, null, a text that is no JSON object, an object with
\* neither field, or {data, error} with data and/or error set.
Bodies == {"missing", "null", "text", "empty", "data", "error", "both"}
Transports ==
    {[kind |-> "network", status |-> NoStatus, body |-> "missing"]} \cup
    {[kind |-> "response", status |-> c, body |-> b] :
        c \in StatusCodes, b \in Bodies}
NoTransport == [kind |-> "none", status |-> NoStatus, body |-> "missing"]

\* axios rejects a response whose status is outside 2xx.
TransportRejects(t) ==
    t.kind = "network" \/ t.status < 200 \/ t.status >= 300

\* A payload that starts without the data it was given.
createPayloadNoData(data) == [data |-> "undefined", error |-> Null]

\* _createPayload(data)
createPayload(data) == [data |-> data, error |-> Null]

\* The try block of _makeRequest once _doRequest has settled with t:
\* payload.data = resp.data.data; payload.error = resp.data.error; and the
\* catch block: payload.error = err.
ReadResponse(payload, t) ==
    CASE t.kind = "network" ->
            [payload EXCEPT !.error = Err("NetworkError", NoStatus, NoStatus)]
      [] t.kind = "response" /\ TransportRejects(t) ->
            [payload EXCEPT !.error = Err("AxiosError", NoStatus, t.status)]
      [] OTHER ->
            CASE t.body \in {"missing", "null"} ->
                    [payload EXCEPT
                        !.error = Err("TypeError", NoStatus, NoStatus)]
              [] t.body \in {"text", "empty"} ->
                    [data |-> "undefined", error |-> Undefined]
              [] t.body = "data" ->
                    [data |-> "remote", error |-> Null]
              [] t.body = "error" ->
                    [data |-> "undefined",
                     error |-> Err("RemoteError", NoStatus, NoStatus)]
              [] t.body = "both" ->
                    [data |-> "remote",
                     error |-> Err("RemoteError", NoStatus, NoStatus)]

RpcIdle ==
    [pc |-> "idle", path |-> "", method |-> "get", auth |-> FALSE,
     logger |-> "noop", failingHook |-> "none", headers |-> <<>>,
     sentHeaders |-> <<>>,
     calls |-> <<>>, transport |-> NoTransport,
     paylaodData |-> "undefined",
     payload |-> createPayload("undefined"), result |-> "none",
     raised |-> Null]

RpcInit == rpc = RpcIdle

\* _makeRequest(args, paylaodData): the payload is created and _doRequest
\* entered.
RpcCall ==
    /\ rpc.pc = "idle"
    /\ \E path \in Paths, method \in Methods, auth \in BOOLEAN,
          data \in {"undefined", "default"}, logger \in Loggers,
          hook \in {"none", "onAuth", "onBuildHeaders"} :
          rpc' = [rpc EXCEPT !.pc = IF auth THEN "auth" ELSE "headers",
                             !.path = path, !.method = method,
                             !.auth = auth, !.logger = logger,
                             !.failingHook = hook,
                             !.paylaodData = data,
                             !.payload = createPayload(data)]
    /\ UNCHANGED <<launchVars, regVars, cs>>

\* A request that asks for auth and goes on without the auth hook.
RpcAuthSkipped ==
    /\ rpc.pc = "auth"
    /\ rpc' = [rpc EXCEPT !.pc = "headers"]
    /\ UNCHANGED <<launchVars, regVars, cs>>

\* if (auth) headers = await onAuth({headers}); a hook that throws is caught
\* by _makeRequest.
RpcAuth ==
    /\ rpc.pc = "auth"
    /\ rpc' = IF rpc.failingHook = "onAuth"
              THEN [rpc EXCEPT !.pc = "log",
                               !.calls = Append(@, "onAuth"),
                               !.payload.error =
                                   Err("HookError", NoStatus, NoStatus)]
              ELSE [rpc EXCEPT !.pc = "headers",
                               !.calls = Append(@, "onAuth"),
                               !.headers = Append(@, "auth")]
    /\ UNCHANGED <<launchVars, regVars, cs>>

\* headers = await onBuildHeaders({headers})
RpcBuildHeaders ==
    /\ rpc.pc = "headers"
    /\ rpc' = IF rpc.failingHook = "onBuildHeaders"
              THEN [rpc EXCEPT !.pc = "log",
                               !.calls = Append(@, "onBuildHeaders"),
                               !.payload.error =
                                   Err("HookError", NoStatus, NoStatus)]
              ELSE [rpc EXCEPT !.pc = "send",
                               !.calls = Append(@, "onBuildHeaders"),
                               !.headers = Append(@, "built")]
    /\ UNCHANGED <<launchVars, regVars, cs>>

\* The pre-request log, then _request.get or _request.post.
RpcSend ==
    /\ rpc.pc = "send"
    /\ rpc' = IF LogFails(rpc.logger, "debug")
              THEN [rpc EXCEPT !.pc = "log",
                               !.payload.error =
                                   Err("LoggerError", NoStatus, NoStatus)]
              ELSE [rpc EXCEPT !.pc = "wait",
                               !.calls = Append(@, rpc.method),
                               !.sentHeaders = rpc.headers]
    /\ UNCHANGED <<launchVars, regVars, cs>>

\* The transport settles: the rest of the try block, or the catch block.
RpcResponse ==
    /\ rpc.pc = "wait"
    /\ \E t \in Transports :
          rpc' = [rpc EXCEPT !.pc = "log", !.transport = t,
                             !.payload = ReadResponse(@, t)]
    /\ UNCHANGED <<launchVars, regVars, cs>>

\* if (payload.error) this._log(payload.error, "error"); return payload;
\* the log is outside the try block.
RpcReturn ==
    /\ rpc.pc = "log"
    /\ rpc' = IF Truthy(rpc.payload.error) /\ LogFails(rpc.logger, "error")
              THEN [rpc EXCEPT !.pc = "done", !.result = "raised",
                               !.raised =
                                   Err("LoggerError", NoStatus, NoStatus)]
              ELSE [rpc EXCEPT !.pc = "done", !.result = "returned"]
    /\ UNCHANGED <<launchVars, regVars, cs>>

(***************************************************************************)
(* The workspace registry: getWSKey, putWS, getWS                          *)
(***************************************************************************)
UpperCase == <<"A", "B">>
LowerCase == <<"a", "b">>

\* c.toLowerCase() for one character.
toLowerCaseChar(c) ==
    IF \E i \in 1..Len(UpperCase) : UpperCase[i] = c
    THEN LowerCase[CHOOSE i \in 1..Len(UpperCase) : UpperCase[i] = c]
    ELSE c

\* s.toLowerCase()
toLowerCase(s) == [i \in 1..Len(s) |-> toLowerCaseChar(s[i])]

\* _.trimEnd(s, c): every trailing c removed.
RECURSIVE trimEnd(_, _)
trimEnd(s, c) ==
    IF s # <<>> /\ s[Len(s)] = c
    THEN trimEnd(SubSeq(s, 1, Len(s) - 1), c)
    ELSE s

\* A normalisation that removes one trailing separator only.
getWSKeyTrimOne(uri) ==
    toLowerCase(IF uri # <<>> /\ uri[Len(uri)] = "/"
                THEN SubSeq(uri, 1, Len(uri) - 1) ELSE uri)

\* A normalisation that keeps the letter case.
getWSKeyNoFold(uri) == trimEnd(uri, "/")

\* getWSKey(uri): _.trimEnd(uri, "/").toLowerCase()
getWSKey(uri) == toLowerCase(trimEnd(uri, "/"))

\* One store key for every workspace.
StoreKeyShared(ws) == <<"w", "s", ":">>

\* `ws:${getWSKey(ws)}`
StoreKey(ws) == <<"w", "s", ":">> \o getWSKey(ws)

\* The raw workspace identifiers and the engines of the calls.
RawKeys == {<<>>, <<"/">>, <<"a">>, <<"A">>, <<"a", "/">>,
            <<"A", "/", "/">>, <<"a", "/", "b">>, <<"A", "/", "B", "/">>}
Engines == {"engine1", "engine2"}
NoEngine == "undefined"

\* MemoryStore before any put.
EmptyStore == [k \in {} |-> NoEngine]

\* MemoryStore.put(key, value) and MemoryStore.get(key) on the one instance.
MemoryPut(m, key, value) ==
    [k \in DOMAIN m \cup {key} |-> IF k = key THEN value ELSE m[k]]
MemoryGet(m, key) == IF key \in DOMAIN m THEN m[key] ELSE NoEngine

\* A put that starts from an empty store.
putWSFresh(m, ws, engine) == MemoryPut(EmptyStore, StoreKey(ws), engine)

\* A put under the raw identifier.
putWSRawKey(m, ws, engine) == MemoryPut(m, <<"w", "s", ":">> \o ws, engine)

\* putWS({ws, engine})
putWS(m, ws, engine) == MemoryPut(m, StoreKey(ws), engine)

\* A lookup that returns what the store gave, engine or not.
getWSNoThrow(m, ws) ==
    [thrown |-> FALSE, engine |-> MemoryGet(m, StoreKey(ws))]

\* getWS({ws}): the engine, or the throw of `No Engine: ${ws}`.
getWS(m, ws) ==
    LET engine == MemoryGet(m, StoreKey(ws))
    IN IF engine = NoEngine
       THEN [thrown |-> TRUE, engine |-> NoEngine]
       ELSE [thrown |-> FALSE, engine |-> engine]

NoCall == [op |-> "none", ws |-> <<>>, engine |-> NoEngine,
           thrown |-> FALSE, before |-> EmptyStore]

RegInit ==
    /\ store = EmptyStore
    /\ puts = <<>>
    /\ regLast = NoCall

PutWS ==
    /\ Len(puts) < MaxPuts
    /\ \E ws \in RawKeys, engine \in Engines :
          /\ store' = putWS(store, ws, engine)
          /\ puts' = Append(puts, [ws |-> ws, engine |-> engine])
          /\ regLast' = [op |-> "put", ws |-> ws, engine |-> engine,
                         thrown |-> FALSE, before |-> store]
    /\ UNCHANGED <<launchVars, rpc, cs>>

GetWS ==
    /\ \E ws \in RawKeys :
          LET r == getWS(store, ws)
          IN regLast' = [op |-> "get", ws |-> ws, engine |-> r.engine,
                         thrown |-> r.thrown, before |-> store]
    /\ UNCHANGED <<launchVars, rpc, store, puts, cs>>

(***************************************************************************)
(* Specifications                                                          *)
(***************************************************************************)
Init ==
    /\ launcher = "idle"
    /\ logPathSet = TRUE
    /\ child = "none"
    /\ childPid = NoPid
    /\ subListeners = NoListeners
    /\ procListeners = NoListeners
    /\ pending = <<>>
    /\ nEmitted = 0
    /\ promise = Pending
    /\ settleCalls = 0
    /\ firstEvent = NoEvent
    /\ killCalls = 0
    /\ lastKillRes = "none"
    /\ lastRaised = "none"
    /\ killPid = NoPid
    /\ RpcInit
    /\ RegInit
    /\ cs = CsIdle

Next == Launch \/ ChildEmit \/ Dispatch \/ LauncherTerminate

Spec == Init /\ [][Next]_vars

\* The event loop does not leave a queued event undispatched for ever.
FairSpec == Spec /\ WF_vars(Dispatch)

RpcNext ==
    RpcCall \/ RpcAuth \/ RpcBuildHeaders \/ RpcSend \/ RpcResponse
        \/ RpcReturn

RpcSpec == Init /\ [][RpcNext]_vars

RegNext == PutWS \/ GetWS

RegSpec == Init /\ [][RegNext]_vars

HandshakeNext ==
    Launch \/ StartServerNode \/ Launchv2Settles \/ ChildEnds \/ Dispatch

HandshakeSpec == Init /\ [][HandshakeNext]_vars

\* The registry calls with a launch of the server in between.
RegLaunchNext == PutWS \/ GetWS \/ Launch

RegLaunchSpec == Init /\ [][RegLaunchNext]_vars

(***************************************************************************)
(* Properties of the launch                                                *)
(***************************************************************************)
\* The launch listener of an event: the first one execServerNode registers.
FirstOutcome(ev) ==
    LET h == Head(execServerNodeListeners.sub[ev.name])
        st == [ListenerState EXCEPT !.promise = Pending]
    IN RunListener(h, st, ev, "ok").promise

PositivePort(port) == ~port.nan /\ port.v > 0

\* C1: for one call of execServerNode the caller observes exactly one
\* outcome, a resolve or a reject, as soon as one of close, disconnect, exit,
\* error and message has fired; the first of them decides it, and no later
\* event, however often resolve and reject are called again, changes it.
C1_SettledOnceByFirstEvent ==
    /\ (firstEvent = NoEvent) <=> (promise.state = "pending")
    /\ promise.state \in {"pending", "resolved", "rejected"}
    /\ firstEvent # NoEvent => promise = FirstOutcome(firstEvent)

\* A later event has called reject on the promise a message had resolved.
C1_Witness ==
    /\ promise.state = "resolved"
    /\ firstEvent.name = "message"
    /\ settleCalls >= 2

\* C2: a first message whose payload is not a number, or is a number that is
\* not positive, rejects the launch with the invalid-port error; the launch
\* resolves only when the parsed value is a positive integer.
C2_InvalidPortRejects ==
    firstEvent.name = "message" =>
        LET port == parseInt(firstEvent.payload)
        IN /\ ~PositivePort(port) =>
                /\ promise.state = "rejected"
                /\ promise.message = "port is smaller than 0"
           /\ promise.state = "resolved" => PositivePort(port)

\* The launch was rejected by an invalid-port message, a disconnect or an
\* error: the child was spawned and no handshake succeeded.
RejectedWithoutHandshake ==
    /\ promise.state = "rejected"
    /\ firstEvent.name \in {"message", "disconnect", "error"}

\* C3: after a rejection by an invalid-port message, a disconnect or an
\* error, the default kill is eventually invoked on the child (as long as
\* the launcher itself lives to invoke it).
C3_UnreadyChildReaped ==
    RejectedWithoutHandshake ~> (killCalls > 0 \/ launcher = "dead")

\* C4: whenever the launcher has terminated, the cleanup callback has run
\* and the child is killed: in no state is the launcher dead and the child
\* alive or un-killed.
C4_ChildDiesWithLauncher ==
    (launcher = "dead" /\ child # "none") =>
        (killCalls > 0 /\ child = "gone")

\* C7: a launch whose log path is unset spawns no process and fails with the
\* configuration error.
C7_NoSpawnWithoutLogPath ==
    (launcher # "idle" /\ ~logPathSet) =>
        /\ child = "none"
        /\ promise.state = "rejected"
        /\ promise.message = "no value found for env variable"

\* C8: a first message whose payload is the decimal string of a positive
\* integer p resolves the launch with port p and the handle of the process
\* this launch spawned.
C8_HandshakeResolvesWithPort ==
    \A p \in Ports :
        (firstEvent.name = "message" /\ firstEvent.payload = ToDecimal(p)) =>
            /\ promise.state = "resolved"
            /\ promise.port = Num(p)
            /\ promise.pid = childPid
            /\ childPid \in Pids

\* The launch resolved with port 41234 and a later event was dispatched.
C8_Witness ==
    /\ firstEvent = Ev("message", <<"4", "1", "2", "3", "4">>, NoCode)
    /\ promise.port = Num(41234)
    /\ settleCalls >= 2

\* C9: a close, disconnect, exit or error that fires before any message
\* rejects the launch with the error of that event (its message names the
\* event), carrying the exit code of a close or exit and the detail of an
\* error.
C9_TerminalEventRejects ==
    firstEvent.name \in {"close", "disconnect", "exit", "error"} =>
        /\ promise.state = "rejected"
        /\ ~promise.wrapped
        /\ promise.message = firstEvent.name
        /\ firstEvent.name \in {"close", "exit"} =>
               promise.code = firstEvent.code
        /\ firstEvent.name = "error" =>
               promise.detail = stringifyError(firstEvent.payload)

\* A close with code 1 came first, and a message after it changed nothing.
C9_Witness ==
    /\ firstEvent = Ev("close", <<>>, 1)
    /\ promise.message = "close"
    /\ promise.code = 1
    /\ settleCalls >= 2

\* C10: the default kill never raises when the process is already gone
\* (ESRCH), however often it runs, and raises again every other failure.
C10_KillIdempotent ==
    /\ lastKillRes = "ESRCH" => lastRaised = "none"
    /\ lastKillRes \notin {"none", "ok", "ESRCH"} => lastRaised = lastKillRes

\* The kill ran twice, the second time on a process already gone.
C10_Witness ==
    /\ killCalls >= 2
    /\ child = "gone"
    /\ lastKillRes = "ESRCH"
    /\ lastRaised = "none"

\* An event with a launch listener is queued on the subprocess handle.
LaunchEventQueued ==
    \E i \in 1..Len(pending) : pending[i].name \in LaunchEvents

\* C11: a launch does not stay pending for ever: once the child has emitted
\* a close, disconnect, exit, error or message, the event is delivered to the
\* launcher (as long as the launcher lives) and the promise is resolved or
\* rejected.
C11_LaunchEventuallySettles ==
    LaunchEventQueued ~> (promise.state # "pending" \/ launcher = "dead")

\* The one event the child emitted was delivered and rejected the launch.
C11_Witness ==
    /\ launcher = "running"
    /\ nEmitted = 1
    /\ pending = <<>>
    /\ promise.state = "rejected"
    /\ firstEvent.name = "disconnect"

(***************************************************************************)
(* Properties of the RPC client                                            *)
(***************************************************************************)
\* The transport failed, answered outside 2xx, or answered with a body that
\* is absent or is no object.
TransportFailed(t) ==
    \/ TransportRejects(t)
    \/ t.body \in {"missing", "null", "text"}

\* C5: every call resolves with a payload and never raises (here already
\* with the default no-op logger), and a transport exception, a non-2xx
\* response and a malformed or missing body each leave an error in the
\* payload returned.
C5_FailuresCapturedInPayload ==
    (rpc.pc = "done" /\ rpc.logger = "noop") =>
        /\ rpc.result = "returned"
        /\ (rpc.transport.kind # "none" /\ TransportFailed(rpc.transport)) =>
               Truthy(rpc.payload.error)

\* The typed error of a status: the one of the table, or the generic one
\* with the raw code.
TypedError(c) ==
    IF c \in DOMAIN STATUS_HANDLERS
    THEN STATUS_HANDLERS[c]
    ELSE Err("unknown_error", c, NoStatus)

\* C6: after a response with an error status the payload returned is
\* {data: undefined, error: the typed error of that status}.
C6_StatusMapsToTypedError ==
    (rpc.pc = "done" /\ rpc.transport.kind = "response"
        /\ TransportRejects(rpc.transport)) =>
        /\ rpc.payload.error = TypedError(rpc.transport.status)
        /\ rpc.payload.data = "undefined"

\* The step at hand dispatches a cleanup event of the subprocess handle
\* while the launch promise is already settled.
LateCleanupDispatched ==
    /\ launcher = "running"
    /\ promise.state # "pending"
    /\ pending # <<>>
    /\ Head(pending).name \in CleanupEvents
    /\ pending' = Tail(pending)

\* C18: once the launch has settled, the dispatch of every later exit,
\* SIGINT, SIGUSR1, SIGUSR2 or uncaughtException of the child's handle
\* still invokes the kill, on the child's pid, and leaves the settled
\* promise as it is.
C18_CleanupOutlivesSettlement ==
    [][LateCleanupDispatched =>
          /\ killCalls' = killCalls + 1
          /\ killPid' = childPid
          /\ promise' = promise]_vars

\* The launch resolved by the message and the exit dispatched after it
\* (the only event that both settles and cleans up) invoked the kill.
C18_Witness ==
    /\ launcher = "running"
    /\ firstEvent.name = "message"
    /\ promise.state = "resolved"
    /\ nEmitted = 2
    /\ pending = <<>>
    /\ settleCalls = 2
    /\ killCalls = 1
    /\ killPid = childPid

(***************************************************************************)
(* Properties of the workspace registry                                    *)
(***************************************************************************)
\* The putWS calls so far whose key normalizes to the key of k.
PutsUnder(k) == {i \in 1..Len(puts) : getWSKey(puts[i].ws) = getWSKey(k)}

\* The most recent of them.
LastPutUnder(k) ==
    CHOOSE i \in PutsUnder(k) : \A j \in PutsUnder(k) : j <= i

\* C12: getWS(k) returns the engine of the most recent putWS whose key
\* normalizes to the same key as k, and earlier puts under that key are
\* not observable.
C12_GetReturnsLastPut ==
    (regLast.op = "get" /\ PutsUnder(regLast.ws) # {}) =>
        /\ ~regLast.thrown
        /\ regLast.engine = puts[LastPutUnder(regLast.ws)].engine

\* Two puts under differently written identifiers of one key, with
\* different engines, and a getWS that returned the second engine.
C12_Witness ==
    /\ regLast.op = "get"
    /\ ~regLast.thrown
    /\ Len(puts) = 2
    /\ PutsUnder(regLast.ws) = {1, 2}
    /\ puts[1].ws # puts[2].ws
    /\ puts[1].engine # puts[2].engine
    /\ regLast.engine = puts[2].engine

\* C13: getWS(k) fails with the no-engine error when no earlier putWS used
\* a key that normalizes to the key of k, and the failed lookup leaves the
\* registry as it was.
C13_MissingKeyFails ==
    (regLast.op = "get" /\ PutsUnder(regLast.ws) = {}) =>
        /\ regLast.thrown
        /\ regLast.engine = NoEngine
        /\ store = regLast.before

\* A lookup failed in a registry that holds an engine under another key.
C13_Witness ==
    /\ regLast.op = "get"
    /\ regLast.thrown
    /\ puts # <<>>
    /\ DOMAIN store # {}
    /\ store = regLast.before

\* a and b are the same characters up to letter case.
SameIgnoringCase(a, b) ==
    /\ Len(a) = Len(b)
    /\ \A i \in 1..Len(a) : toLowerCaseChar(a[i]) = toLowerCaseChar(b[i])

\* Every character of s from position n + 1 on is the separator.
OnlySeparatorsAfter(s, n) == \A i \in (n + 1)..Len(s) : s[i] = "/"

\* a and b differ only in trailing separators and in letter case.
DifferOnlyInTailAndCase(a, b) ==
    \E n \in 0..Len(a) :
        /\ n <= Len(b)
        /\ SameIgnoringCase(SubSeq(a, 1, n), SubSeq(b, 1, n))
        /\ OnlySeparatorsAfter(a, n)
        /\ OnlySeparatorsAfter(b, n)

\* C14: two identifiers that differ only in trailing "/" separators and in
\* letter case have the same normalized key, and an engine put under one
\* of them is what getWS returns under the other.
C14_EquivalentKeysShareEntry ==
    /\ \A i \in 1..Len(puts) :
           (regLast.op # "none"
               /\ DifferOnlyInTailAndCase(puts[i].ws, regLast.ws)) =>
               getWSKey(puts[i].ws) = getWSKey(regLast.ws)
    /\ (regLast.op = "get" /\ puts # <<>>
           /\ DifferOnlyInTailAndCase(puts[Len(puts)].ws, regLast.ws)) =>
           /\ ~regLast.thrown
           /\ regLast.engine = puts[Len(puts)].engine

\* An engine put under "A//" was returned by getWS under "a".
C14_Witness ==
    /\ regLast.op = "get"
    /\ regLast.ws = <<"a">>
    /\ puts # <<>>
    /\ puts[Len(puts)].ws = <<"A", "/", "/">>
    /\ ~regLast.thrown
    /\ regLast.engine = puts[Len(puts)].engine

\* C15: normalizing is idempotent: the key of a key is that key, for every
\* identifier a registry call was made with.
C15_NormalizeIdempotent ==
    regLast.op # "none" =>
        getWSKey(getWSKey(regLast.ws)) = getWSKey(regLast.ws)

\* A call was made with an identifier that normalizing changes in both
\* ways, and its entry sits under the normalized key.
C15_Witness ==
    /\ regLast.op = "put"
    /\ regLast.ws = <<"A", "/", "/">>
    /\ getWSKey(regLast.ws) = <<"a">>
    /\ <<"w", "s", ":", "a">> \in DOMAIN store

(***************************************************************************)
(* Properties of the handshake                                             *)
(***************************************************************************)
\* C16: a run of startServerNode sends at most one message, a completed run
\* has sent exactly one, whose payload is the decimal string of the port
\* the listener is bound to, and a launch that resolved resolved with that
\* port.
C16_HandshakeIsOneMessage ==
    /\ cs.sent <= 1
    /\ cs.pc = "done" =>
           /\ cs.sent = 1
           /\ cs.listening
           /\ cs.payload = ToDecimal(cs.finalPort)
    /\ promise.state = "resolved" =>
           /\ cs.pc = "done"
           /\ promise.port = Num(cs.finalPort)

\* The child chose its port, sent it, and the launch resolved with it.
C16_Witness ==
    /\ cs.pc = "done"
    /\ cs.port = NoPort
    /\ cs.finalPort = 41234
    /\ cs.sent = 1
    /\ promise.state = "resolved"
    /\ promise.port = Num(41234)

\* C19: a run of startServerNode that failed with the not-a-child error, in
\* a process without an IPC channel, has neither started the engine's
\* listener nor sent a message.
C19_ChannelCheckedFirst ==
    cs.error = "expect a child process" =>
        /\ ~cs.hasSend
        /\ ~cs.listening
        /\ cs.sent = 0

(***************************************************************************)
(* Properties of the payload and of the logger                             *)
(***************************************************************************)
\* The data field of the body of a response.
BodyData(t) == IF t.body \in {"data", "both"} THEN "remote" ELSE "undefined"

\* C17 as stated: in the payload a call returned, an error present means
\* that data is undefined.
C17_ErrorMeansNoData ==
    (rpc.pc = "done" /\ rpc.result = "returned"
        /\ Truthy(rpc.payload.error)) =>
        rpc.payload.data = "undefined"

\* C17 amended: in the payload a call returned with an error, data is the
\* data field of the response body when the error is the body's error
\* field, and otherwise (the request itself failed) the default payload
\* data the caller passed, undefined when none was passed.
C17_ErrorKeepsGivenData ==
    (rpc.pc = "done" /\ rpc.result = "returned"
        /\ Truthy(rpc.payload.error)) =>
        IF rpc.payload.error.kind = "RemoteError"
        THEN rpc.payload.data = BodyData(rpc.transport)
        ELSE rpc.payload.data = rpc.paylaodData

\* A call given default payload data got a 404 and returned the axios error
\* next to that default data.
C17_Witness ==
    /\ rpc.pc = "done"
    /\ rpc.result = "returned"
    /\ rpc.paylaodData = "default"
    /\ rpc.transport.kind = "response"
    /\ rpc.transport.status = 404
    /\ rpc.payload.error.kind = "AxiosError"
    /\ rpc.payload.data = "default"

\* The payload the call returns with the default no-op logger, for the
\* hooks and the transport outcome of the call at hand.
PayloadWithNoopLogger ==
    LET given == createPayload(rpc.paylaodData)
    IN IF \/ rpc.auth /\ rpc.failingHook = "onAuth"
          \/ rpc.failingHook = "onBuildHeaders"
       THEN [given EXCEPT !.error = Err("HookError", NoStatus, NoStatus)]
       ELSE ReadResponse(given, rpc.transport)

\* C20: whichever logger is injected, a completed call has resolved, not
\* raised, and with the payload it returns with the default logger for the
\* same request and the same transport outcome.
C20_LoggerNeverChangesResult ==
    rpc.pc = "done" =>
        /\ rpc.result = "returned"
        /\ rpc.payload.error.kind # "LoggerError"
        /\ rpc.transport.kind # "none" =>
               rpc.payload = PayloadWithNoopLogger

(***************************************************************************)
(* Properties of the request hooks                                         *)
(***************************************************************************)
\* The positions of the calls of f among the calls of the request.
CallsOf(f) == {i \in 1..Len(rpc.calls) : rpc.calls[i] = f}

\* The positions of the transport call (_request.get or _request.post).
TransportCalls == {i \in 1..Len(rpc.calls) : rpc.calls[i] \in Methods}

\* C21: in every request onBuildHeaders runs at most once, and exactly once
\* and earlier when the transport is called; onAuth runs only in a request
\* that asks for auth, and then before onBuildHeaders; and the transport
\* receives as headers what onBuildHeaders returned.
C21_HooksBeforeTransport ==
    /\ Cardinality(CallsOf("onBuildHeaders")) <= 1
    /\ Cardinality(CallsOf("onAuth")) <= 1
    /\ Cardinality(TransportCalls) <= 1
    /\ CallsOf("onAuth") # {} => rpc.auth
    /\ \A b \in CallsOf("onBuildHeaders") :
           /\ rpc.auth => \E a \in CallsOf("onAuth") : a < b
           /\ \A a \in CallsOf("onAuth") : a < b
    /\ \A t \in TransportCalls :
           /\ \E b \in CallsOf("onBuildHeaders") : b < t
           /\ rpc.sentHeaders = rpc.headers
           /\ rpc.sentHeaders =
                  IF rpc.auth THEN <<"auth", "built">> ELSE <<"built">>

\* A post that asked for auth ran onAuth, onBuildHeaders and the transport
\* in this order, and the transport got the headers of both hooks.
C21_Witness ==
    /\ rpc.pc = "done"
    /\ rpc.auth
    /\ rpc.calls = <<"onAuth", "onBuildHeaders", "post">>
    /\ rpc.sentHeaders = <<"auth", "built">>

(***************************************************************************)
(* Properties of the registry's entries and of the kill                    *)
(***************************************************************************)
\* C22: no putWS, getWS or launch removes an entry: every key a putWS was
\* made under still has its engine in the store, and a getWS for a key
\* with the normalized form of an earlier put does not fail.
C22_EntriesNeverRemoved ==
    /\ \A i \in 1..Len(puts) :
           MemoryGet(store, StoreKey(puts[i].ws)) \in Engines
    /\ (regLast.op = "get" /\ PutsUnder(regLast.ws) # {}) =>
           /\ ~regLast.thrown
           /\ regLast.engine \in Engines

\* With the server launched and a second put under another key made, the
\* getWS for the key of the first put returned its engine.
C22_Witness ==
    /\ launcher = "running"
    /\ Len(puts) = 2
    /\ regLast.op = "get"
    /\ PutsUnder(regLast.ws) = {1}
    /\ ~regLast.thrown
    /\ regLast.engine = puts[1].engine

\* C23: a putWS under k leaves getWS(j) as it was, engine or failure, for
\* every j whose normalized form is not that of k.
C23_PutChangesOneEntry ==
    regLast.op = "put" =>
        \A j \in RawKeys :
            getWSKey(j) # getWSKey(regLast.ws) =>
                getWS(store, j) = getWS(regLast.before, j)

\* A put added the entry of its key to a store that holds an engine under
\* another key, which getWS still returns.
C23_Witness ==
    /\ regLast.op = "put"
    /\ DOMAIN regLast.before # {}
    /\ DOMAIN store # DOMAIN regLast.before
    /\ Len(puts) = 2
    /\ \E j \in RawKeys :
          /\ getWSKey(j) # getWSKey(regLast.ws)
          /\ ~getWS(store, j).thrown

=============================================================================
